---- MODULE Spec2Model ----
(***************************************************************************)
(* A model of trojanzoo/models/model.py: the raw network's classifier      *)
(* construction (_Model.define_classifier), the Model wrapper's life cycle *)
(* (construction, train/eval/cpu/cuda, load/save), its training loop       *)
(* (Model._train) and its top-k accuracy (Model.accuracy).                 *)
(***************************************************************************)
EXTENDS Integers, Sequences, FiniteSets, TLC

\* ------------------------------------------------------------------ bounds
MaxEpoch == 3       \* largest epoch argument of _train
MaxInterval == 2    \* largest validate_interval argument of _train
MaxBatch == 1       \* largest number of batches the training loader yields
MaxAcc == 1         \* validate_func returns an accuracy in 0..MaxAcc
MaxFiles == 1       \* the disk holds at most this many checkpoint files
MaxDepth == 3       \* largest fc_depth of a network
MaxDim == 2         \* largest conv_dim, fc_dim and num_classes of a network
MaxLogits == 4      \* largest batch_size * num_classes of a scored batch
MaxTargetLogits == 3 \* largest batch_size * num_classes given to generate_target

\* The parameters of the network, by the group get_params names them.
Params == {"features", "classifier"}

VARIABLES
    pc,             \* where control is: "idle" between calls, or a point of _train
    call,           \* the arguments of the _train call in progress
    epochIdx,       \* _epoch, the loop variable of _train
    batchIdx,       \* the number of batches of this epoch already consumed
    best_acc,       \* best_acc of _train
    accLog,         \* the accuracies validate_func returned during this call
    validated,      \* the epoch numbers (1-based) whose in-loop validation ran
    saveLog,        \* the argument tuples save_fn was called with
    counters,       \* optimizer steps, scheduler steps and skipped steps of this call
    grads,          \* "zero" or "dirty": the .grad buffers of the parameters
    requires_grad,  \* param.requires_grad of every parameter
    training,       \* .training of the canonical network and of the view
    device,         \* the device of the canonical network's and the view's parameters
    wrapped,        \* self.model is nn.DataParallel(self._model)
    weights,        \* the value of every parameter
    self,           \* the attributes of the wrapper set at construction
    fs,             \* the file system: directories, and checkpoint files
    roundtrip,      \* the last save call: its arguments and what it was to store
    err,            \* the exception that ended the last call, or NoError
    arg,            \* the input of the function under study
    result          \* what the function returned for it

vars == <<pc, call, epochIdx, batchIdx, best_acc, accLog, validated, saveLog,
          counters, grads, requires_grad, training, device, wrapped, weights,
          self, fs, roundtrip, err, arg, result>>

\* The input and the output of a function called on its own.
io == <<arg, result>>

NoValue == [none |-> TRUE]

NoError == [type |-> "None"]

\* ------------------------------------------------------- module operations

\* Model.activate_params: every parameter off, then the given groups on.
ActivateParams(active_param) == [p \in Params |-> p \in active_param]

\* nn.Module.train(mode) called on self._model and then on self.model.
\* When self.model is the DataParallel wrapper (wr), the call on self._model
\* reaches the canonical network only, and the call on self.model reaches the
\* wrapper and, recursively, the network it wraps; otherwise both names
\* denote the same object.
InnerTrain(tr, wr, mode) ==
    IF wr THEN [tr EXCEPT !.canon = mode] ELSE [canon |-> mode, view |-> mode]

OuterTrain(tr, wr, mode) == [canon |-> mode, view |-> mode]

ModelTrainInnerOnly(tr, wr, mode) == InnerTrain(tr, wr, mode)

\* Model.train
ModelTrain(tr, wr, mode) == OuterTrain(InnerTrain(tr, wr, mode), wr, mode)

ModelEvalInnerOnly(tr, wr) == InnerTrain(tr, wr, FALSE)

\* Model.eval
ModelEval(tr, wr) == OuterTrain(InnerTrain(tr, wr, FALSE), wr, FALSE)

\* Model.cpu / Model.cuda: the wrapper owns no parameter of its own, it
\* exposes those of the network it wraps.
ModelTo(dv, target) == [canon |-> target, view |-> target]

\* A freshly built nn.Module: training mode, every parameter requiring
\* gradients, on the cpu.
FreshTraining == [canon |-> TRUE, view |-> TRUE]
FreshDevice == [canon |-> "cpu", view |-> "cpu"]
FreshRequiresGrad == [p \in Params |-> TRUE]

AllInactive == \A p \in Params : ~requires_grad[p]


\* ------------------------------------------------------------------- paths
\* A path is a sequence of tokens; Sep is the only token holding a '/'.
Sep == "/"
NoPath == <<"<None>">>          \* the argument was omitted (Python's None)
Ext == <<".pth">>
Official == <<"official">>

RECURSIVE RStripSep(_)
RStripSep(p) ==
    IF p # <<>> /\ p[Len(p)] = Sep THEN RStripSep(SubSeq(p, 1, Len(p) - 1)) ELSE p

LastSep(p) ==
    LET idx == {i \in 1..Len(p) : p[i] = Sep}
    IN IF idx = {} THEN 0 ELSE CHOOSE i \in idx : \A j \in idx : j <= i

\* os.path.dirname (posixpath): everything up to the last '/', without the
\* trailing slashes unless it is the root.
Dirname(p) ==
    LET head == SubSeq(p, 1, LastSep(p))
    IN IF head # <<>> /\ (\E i \in 1..Len(head) : head[i] # Sep)
       THEN RStripSep(head) ELSE head

\* os.path.exists: '' does not exist; 'd/' exists when the directory d does.
OsPathExists(fsys, p) ==
    /\ p # <<>>
    /\ \/ p \in DOMAIN fsys.files
       \/ RStripSep(p) \in fsys.dirs

\* The directories os.makedirs(p) leaves in place: p and its ancestors.
MakedirsSet(p) ==
    LET q == RStripSep(p)
    IN {q} \cup {SubSeq(q, 1, i - 1) : i \in {j \in 2..Len(q) : q[j] = Sep}}


\* ------------------------------------------------------------- checkpoints
\* Parameter tensors are only ever copied and compared for equality: two
\* values tell a restored tensor from a perturbed one.
WeightValues == {"w0", "w1"}
WeightSpace == [Params -> WeightValues]
InitialWeights == [p \in Params |-> "w0"]

\* The keys of state_dict(): of the whole network, and of its classifier alone
\* (a submodule's keys carry no 'classifier.' prefix).
FullKeys == [features |-> "features.w", classifier |-> "classifier.w"]
ClassifierKeys == [classifier |-> "w"]

KeysOf(features) == IF features THEN FullKeys ELSE ClassifierKeys

\* self._model.state_dict() if features else self._model.classifier.state_dict()
StateDict(w, features) ==
    LET keys == KeysOf(features)
    IN [k \in {keys[p] : p \in DOMAIN keys} |->
            w[CHOOSE p \in DOMAIN keys : keys[p] = k]]

\* nn.Module.load_state_dict (strict): every key the module expects and the
\* dictionary holds is copied in place; a missing or unexpected key then
\* raises.
LoadStateDict(w, features, dict) ==
    LET keys == KeysOf(features)
    IN [weights |-> [p \in Params |->
                        IF p \in DOMAIN keys /\ keys[p] \in DOMAIN dict
                        THEN dict[keys[p]] ELSE w[p]],
        ok |-> {keys[p] : p \in DOMAIN keys} = DOMAIN dict]

\* The folder and suffix a call falls back to (the wrapper's own).
OrSelf(given, own) == IF given = NoPath THEN own ELSE given

\* Model.load, lines 271-276: the path the arguments resolve to.
LoadPath(slf, a) ==
    IF a.file_path = NoPath
    THEN OrSelf(a.folder_path, slf.folder_path) \o slf.name
            \o OrSelf(a.suffix, slf.suffix) \o Ext
    ELSE a.file_path

\* Model.save, lines 298-303: the path the arguments resolve to.
SavePath(slf, a) ==
    IF a.file_path = NoPath
    THEN OrSelf(a.folder_path, slf.folder_path) \o slf.name
            \o OrSelf(a.suffix, slf.suffix) \o Ext
    ELSE a.file_path

\* Model.save: the folder it makes sure exists.
SaveFolder(slf, a) ==
    IF a.file_path = NoPath THEN OrSelf(a.folder_path, slf.folder_path)
    ELSE Dirname(a.file_path)

\* folder_path + self.name with no folder given and none on the wrapper:
\* None + str raises TypeError.
NoFolder(slf, a) ==
    a.file_path = NoPath /\ OrSelf(a.folder_path, slf.folder_path) = NoPath

\* The weights an overriding load_official_weights installs.
OfficialWeights == [p \in Params |-> "w1"]

\* Model.load_official_weights: the base class has none; a concrete network
\* that overrides it loads its bundled weights into the network.
LoadOfficialWeights(slf, w) ==
    IF slf.has_official
    THEN [weights |-> OfficialWeights, err |-> NoError]
    ELSE [weights |-> w, err |-> [type |-> "NotImplementedError"]]

LoadMissingSilent(w, path) == [weights |-> w, err |-> NoError]

\* Lines 290-291: what a load of a path found absent does.
LoadMissing(w, path) ==
    [weights |-> w, err |-> [type |-> "FileNotFoundError", path |-> path]]

\* Model.load: the parameters after the call and the exception it raised.
Load(slf, a, fsys, w) ==
    IF NoFolder(slf, a) THEN [weights |-> w, err |-> [type |-> "TypeError"]]
    ELSE IF a.file_path = Official THEN LoadOfficialWeights(slf, w)
    ELSE LET path == LoadPath(slf, a)
         IN IF OsPathExists(fsys, path)
            THEN IF path \notin DOMAIN fsys.files
                 THEN [weights |-> w,
                       err |-> [type |-> "IsADirectoryError", path |-> path]]
                 ELSE LET r == LoadStateDict(w, a.features, fsys.files[path])
                      IN [weights |-> r.weights,
                          err |-> IF r.ok THEN NoError
                                  ELSE [type |-> "RuntimeError", path |-> path]]
            ELSE LoadMissing(w, path)

\* Model.save: the file system after the call and the exception it raised.
Save(slf, a, fsys, w) ==
    IF NoFolder(slf, a) THEN [fs |-> fsys, err |-> [type |-> "TypeError"]]
    ELSE
    LET path == SavePath(slf, a)
        folder == SaveFolder(slf, a)
        made == IF OsPathExists(fsys, folder) THEN fsys.dirs
                ELSE fsys.dirs \cup MakedirsSet(folder)
    IN IF ~OsPathExists(fsys, folder) /\ folder = <<>>
       THEN \* os.makedirs('')
            [fs |-> fsys, err |-> [type |-> "FileNotFoundError", path |-> folder]]
       ELSE IF Dirname(path) # <<>> /\ Dirname(path) \notin made
       THEN [fs |-> [fsys EXCEPT !.dirs = made],
             err |-> [type |-> "FileNotFoundError", path |-> path]]
       ELSE IF path \in made
       THEN [fs |-> [fsys EXCEPT !.dirs = made],
             err |-> [type |-> "IsADirectoryError", path |-> path]]
       ELSE [fs |-> [dirs |-> made,
                     files |-> [q \in DOMAIN fsys.files \cup {path} |->
                                  IF q = path THEN StateDict(w, a.features)
                                  ELSE fsys.files[q]]],
             err |-> NoError]


\* ----------------------------------------------------- the states at rest
FilePaths == {NoPath, <<"f">>, <<"d", Sep, "f">>, Official}
FolderPaths == {NoPath, <<"e", Sep>>}
Suffixes == {NoPath, <<"_s">>}

\* The path arguments of load and save.
PathArgs ==
    [file_path : FilePaths, folder_path : FolderPaths, suffix : Suffixes,
     features : BOOLEAN]

\* The calls among them that differ in effect: load and save read
\* folder_path and suffix only when file_path is omitted.
EffectiveArgs ==
    {a \in PathArgs :
        a.file_path = NoPath \/ (a.folder_path = NoPath /\ a.suffix = NoPath)}

DefaultArgs ==
    [file_path |-> NoPath, folder_path |-> NoPath, suffix |-> NoPath,
     features |-> TRUE]

NoCall ==
    [epoch |-> 0, validate_interval |-> 0, save |-> FALSE, epoch_func |-> FALSE,
     lr_scheduler |-> FALSE, nbatch |-> 0, params |-> {}, save_args |-> DefaultArgs,
     amp |-> FALSE]

NoRoundtrip == [phase |-> "none"]

EmptyDisk == [dirs |-> {}, files |-> <<>>]

\* A disk on which an earlier run left the default checkpoint.
UsedDisk ==
    [dirs |-> {<<"d">>},
     files |-> [q \in {<<"d", Sep, "m">> \o Ext} |->
                    StateDict([p \in Params |-> "w1"], TRUE)]]

\* No _train call is in progress.
TrainAtRest ==
    /\ call = NoCall
    /\ epochIdx = 0
    /\ batchIdx = 0
    /\ best_acc = 0
    /\ accLog = <<>>
    /\ validated = {}
    /\ saveLog = <<>>
    /\ counters = [opt |-> 0, sched |-> 0, skip |-> 0]

trainVars == <<call, epochIdx, batchIdx, best_acc, accLog, validated, saveLog,
               counters>>

\* ------------------------------------------- load, save and perturbation
\* A wrapper as __init__ leaves it on one device, with or without a folder.
InitCkpt ==
    /\ pc = "idle"
    /\ TrainAtRest
    /\ grads = "zero"
    /\ requires_grad = ActivateParams({})
    /\ training = [canon |-> FALSE, view |-> FALSE]
    /\ device = [canon |-> "cpu", view |-> "cpu"]
    /\ wrapped = FALSE
    /\ weights = InitialWeights
    /\ self \in {[name |-> <<"m">>, folder_path |-> f, suffix |-> <<>>,
                  has_official |-> FALSE, dataset |-> "none",
                  num_gpus |-> 0] :
                    f \in {NoPath, <<"d", Sep>>}}
    /\ fs \in {EmptyDisk, UsedDisk}
    /\ roundtrip = NoRoundtrip
    /\ err = NoError
    /\ arg = NoValue
    /\ result = NoValue

SameFile(a, b) ==
    /\ a.file_path = b.file_path
    /\ a.folder_path = b.folder_path
    /\ a.suffix = b.suffix

\* model.save(**a)
CallSave(a) ==
    /\ pc = "idle"
    /\ LET r == Save(self, a, fs, weights)
       IN /\ Cardinality(DOMAIN r.fs.files) <= MaxFiles
          /\ fs' = r.fs
          /\ err' = r.err
    /\ UNCHANGED <<io, pc, trainVars, grads, requires_grad, training, device,
                   wrapped, weights, self>>

\* model.load(**a)
CallLoad(a) ==
    /\ pc = "idle"
    /\ LET r == Load(self, a, fs, weights)
       IN /\ weights' = r.weights
          /\ err' = r.err
    /\ UNCHANGED <<io, pc, trainVars, grads, requires_grad, training, device,
                   wrapped, self, fs>>

\* Something (an attack, a fine-tuning step) changes the parameters.
Perturb(w) ==
    /\ pc = "idle"
    /\ w # weights
    /\ weights' = w
    /\ err' = NoError
    /\ UNCHANGED <<io, pc, trainVars, grads, requires_grad, training, device,
                   wrapped, self, fs>>

NextCkpt ==
    \/ \E a \in EffectiveArgs : CallSave(a) /\ UNCHANGED roundtrip
    \/ \E a \in EffectiveArgs : CallLoad(a) /\ UNCHANGED roundtrip
    \/ \E w \in WeightSpace : Perturb(w) /\ UNCHANGED roundtrip

SpecCkpt == InitCkpt /\ [][NextCkpt]_vars

\* The same calls, with the save / perturb / load sequence in progress
\* remembered: what the last full save was to store, and under which
\* arguments.
SaveTracked(a) ==
    /\ CallSave(a)
    /\ roundtrip' = IF a.features
                    THEN [phase |-> "saved", args |-> a, snap |-> weights]
                    ELSE NoRoundtrip

LoadTracked(a) ==
    /\ CallLoad(a)
    /\ roundtrip' = IF /\ roundtrip.phase = "perturbed"
                       /\ a.features
                       /\ SameFile(a, roundtrip.args)
                    THEN [roundtrip EXCEPT !.phase = "loaded"]
                    ELSE NoRoundtrip

PerturbTracked(w) ==
    /\ Perturb(w)
    /\ roundtrip' = IF roundtrip.phase \in {"saved", "perturbed"}
                    THEN [roundtrip EXCEPT !.phase = "perturbed"]
                    ELSE NoRoundtrip

NextRoundTrip ==
    \/ \E a \in PathArgs : SaveTracked(a)
    \/ \E a \in PathArgs : LoadTracked(a)
    \/ \E w \in WeightSpace : PerturbTracked(w)

SpecRoundTrip == InitCkpt /\ [][NextRoundTrip]_vars

\* ------------------------------------------------------------ Model._train
Epochs == 0..MaxEpoch
Intervals == 0..MaxInterval
Batches == 0..MaxBatch
Accuracies == 0..MaxAcc

\* optimizer.param_groups: the parameters define_optimizer handed over
\* ('full' or 'classifier').
ParamGroups == {Params, {"classifier"}}

\* The path arguments _train passes on to save_fn.
TrainSaveArgs ==
    {DefaultArgs, [DefaultArgs EXCEPT !.file_path = <<"d", Sep, "f">>]}

\* The arguments of a _train call without amp; the path arguments are of
\* interest only to a call that saves.
TrainCalls ==
    {c \in [epoch : Epochs, validate_interval : Intervals, save : BOOLEAN,
            epoch_func : BOOLEAN, lr_scheduler : BOOLEAN, nbatch : Batches,
            params : ParamGroups, save_args : TrainSaveArgs, amp : {FALSE}] :
        c.save \/ c.save_args = DefaultArgs}

SchedulerStepAlways(cnt, lr_scheduler) == [cnt EXCEPT !.sched = @ + 1]

\* Lines 394-395: if lr_scheduler: lr_scheduler.step()
SchedulerStep(cnt, lr_scheduler) ==
    IF lr_scheduler THEN [cnt EXCEPT !.sched = @ + 1] ELSE cnt

\* Lines 336, 364: torch.cuda.amp.GradScaler() is enabled only where CUDA is
\* available; scaler.step(optimizer) of an enabled scaler skips
\* optimizer.step() when the unscaled gradients hold an inf or a NaN.
ScalerMaySkip(c, slf) == c.amp /\ slf.num_gpus > 0

ShouldValidateNoFinal(_epoch, epoch, validate_interval) ==
    /\ validate_interval # 0
    /\ (_epoch + 1) % validate_interval = 0

\* Lines 397-398: does the in-loop validation run after this epoch?
ShouldValidate(_epoch, epoch, validate_interval) ==
    /\ validate_interval # 0
    /\ \/ (_epoch + 1) % validate_interval = 0
       \/ _epoch = epoch - 1

IsBestStrict(cur_acc, best) == cur_acc > best

\* Line 401: is this validation a new best?
IsBest(cur_acc, best) == cur_acc >= best

NewBestLatest(cur_acc, best) == cur_acc

\* Lines 401-404: best_acc after a validation that returned cur_acc.
NewBest(cur_acc, best) == IF IsBest(cur_acc, best) THEN cur_acc ELSE best

SaveAlways(cur_acc, best, save) == save

\* Lines 401 and 405: does this validation write a checkpoint?
SavesCheckpoint(cur_acc, best, save) == IsBest(cur_acc, best) /\ save

Raised(where) == [type |-> "Exception", where |-> where]

\* An exception leaves _train: nothing after the raising statement runs.
Raise(where) ==
    /\ pc' = "raised"
    /\ err' = Raised(where)

\* model._train(**c), lines 326-336: the defaults are filled in.
TrainCall(c) ==
    /\ pc = "idle"
    /\ pc' = "baseline"
    /\ call' = c
    /\ err' = NoError
    /\ UNCHANGED <<io, epochIdx, batchIdx, best_acc, accLog, validated, saveLog,
                   counters, grads, requires_grad, training, device, wrapped,
                   weights, self, fs, roundtrip>>

\* Lines 337-342: the validation before the loop. Model._validate puts the
\* network in evaluation mode, then returns an accuracy or raises (its
\* get_data or loss_fn does).
Baseline ==
    /\ pc = "baseline"
    /\ training' = ModelEval(training, wrapped)
    /\ \/ \E acc \in Accuracies :
            /\ best_acc' = acc
            /\ accLog' = <<acc>>
            /\ pc' = "loop"
            /\ err' = err
       \/ /\ Raise("validate_func")
          /\ UNCHANGED <<io, best_acc, accLog>>
    /\ UNCHANGED <<io, call, epochIdx, batchIdx, validated, saveLog, counters,
                   grads, requires_grad, device, wrapped, weights, self, fs, roundtrip>>

\* Lines 343-345: the loop goes on to its next epoch; with an epoch_func
\* every parameter is deactivated for it.
EpochBegin ==
    /\ pc = "loop"
    /\ epochIdx < call.epoch
    /\ IF call.epoch_func
       THEN /\ requires_grad' = ActivateParams({})
            /\ pc' = "epoch_func"
       ELSE /\ pc' = "epoch_setup"
            /\ UNCHANGED requires_grad
    /\ UNCHANGED <<io, call, epochIdx, batchIdx, best_acc, accLog, validated,
                   saveLog, counters, grads, training, device, wrapped,
                   weights, self, fs, roundtrip, err>>

\* Lines 346-347: epoch_func() runs, then the optimizer's groups are active.
EpochFunc ==
    /\ pc = "epoch_func"
    /\ \/ /\ requires_grad' = ActivateParams(call.params)
          /\ pc' = "epoch_setup"
          /\ err' = err
       \/ /\ Raise("epoch_func")
          /\ UNCHANGED requires_grad
    /\ UNCHANGED <<io, call, epochIdx, batchIdx, best_acc, accLog, validated,
                   saveLog, counters, grads, training, device, wrapped,
                   weights, self, fs, roundtrip>>

\* Lines 348-357: meters reset, training mode, groups active, gradients zeroed.
EpochSetup ==
    /\ pc = "epoch_setup"
    /\ training' = ModelTrain(training, wrapped, TRUE)
    /\ requires_grad' = ActivateParams(call.params)
    /\ grads' = "zero"
    /\ batchIdx' = 0
    /\ pc' = IF call.nbatch > 0 THEN "get_data" ELSE "epoch_end"
    /\ UNCHANGED <<io, call, epochIdx, best_acc, accLog, validated, saveLog,
                   counters, device, wrapped, weights, self, fs, roundtrip, err>>

\* Line 360: get_data(data, mode='train')
BatchData ==
    /\ pc = "get_data"
    /\ \/ pc' = "loss_fn" /\ err' = err
       \/ Raise("get_data")
    /\ UNCHANGED <<io, call, epochIdx, batchIdx, best_acc, accLog, validated,
                   saveLog, counters, grads, requires_grad, training, device,
                   wrapped, weights, self, fs, roundtrip>>

\* Lines 362-363, 367-368: the loss, then its backward pass.
BatchLoss ==
    /\ pc = "loss_fn"
    /\ \/ /\ grads' = "dirty"
          /\ pc' = "optimizer"
          /\ err' = err
       \/ /\ Raise("loss_fn")
          /\ UNCHANGED grads
    /\ UNCHANGED <<io, call, epochIdx, batchIdx, best_acc, accLog, validated,
                   saveLog, counters, requires_grad, training, device,
                   wrapped, weights, self, fs, roundtrip>>

\* One optimizer step on the parameters of its groups.
StepWeights(w, params) ==
    [p \in Params |->
        IF p \in params THEN CHOOSE v \in WeightValues : v # w[p] ELSE w[p]]

\* Lines 364-365, 369: scaler.step(optimizer) with amp, else
\* optimizer.step()
BatchStep ==
    /\ pc = "optimizer"
    /\ \/ /\ weights' = StepWeights(weights, call.params)
          /\ counters' = [counters EXCEPT !.opt = @ + 1]
          /\ pc' = "zero_grad"
          /\ err' = err
       \/ /\ ScalerMaySkip(call, self)
          /\ counters' = [counters EXCEPT !.skip = @ + 1]
          /\ pc' = "zero_grad"
          /\ UNCHANGED <<weights, err>>
       \/ /\ Raise("optimizer")
          /\ UNCHANGED <<io, weights, counters>>
    /\ UNCHANGED <<io, call, epochIdx, batchIdx, best_acc, accLog, validated,
                   saveLog, grads, requires_grad, training, device, wrapped,
                   self, fs, roundtrip>>

\* Line 370: optimizer.zero_grad()
BatchZeroGrad ==
    /\ pc = "zero_grad"
    /\ grads' = "zero"
    /\ pc' = "metrics"
    /\ UNCHANGED <<io, call, epochIdx, batchIdx, best_acc, accLog, validated,
                   saveLog, counters, requires_grad, training, device,
                   wrapped, weights, self, fs, roundtrip, err>>

\* Lines 371-378: the logits again, the accuracies, the meters.
BatchMetrics ==
    /\ pc = "metrics"
    /\ batchIdx' = batchIdx + 1
    /\ pc' = IF batchIdx + 1 < call.nbatch THEN "get_data" ELSE "epoch_end"
    /\ UNCHANGED <<io, call, epochIdx, best_acc, accLog, validated, saveLog,
                   counters, grads, requires_grad, training, device, wrapped,
                   weights, self, fs, roundtrip, err>>

\* Lines 381-398: evaluation mode, every parameter deactivated, the
\* scheduler stepped, and the decision whether to validate.
EpochEnd ==
    /\ pc = "epoch_end"
    /\ training' = ModelEval(training, wrapped)
    /\ requires_grad' = ActivateParams({})
    /\ counters' = SchedulerStep(counters, call.lr_scheduler)
    /\ IF ShouldValidate(epochIdx, call.epoch, call.validate_interval)
       THEN /\ pc' = "validate"
            /\ UNCHANGED epochIdx
       ELSE /\ pc' = "loop"
            /\ epochIdx' = epochIdx + 1
    /\ UNCHANGED <<io, call, batchIdx, best_acc, accLog, validated, saveLog,
                   grads, device, wrapped, weights, self, fs, roundtrip, err>>

\* Lines 399-408: validate_func, the comparison with the best accuracy, and
\* save_fn with the path arguments of the call.
Validate ==
    /\ pc = "validate"
    /\ training' = ModelEval(training, wrapped)
    /\ validated' = validated \cup {epochIdx + 1}
    /\ \/ \E cur_acc \in Accuracies :
            /\ accLog' = Append(accLog, cur_acc)
            /\ best_acc' = NewBest(cur_acc, best_acc)
            /\ IF SavesCheckpoint(cur_acc, best_acc, call.save)
               THEN /\ saveLog' = Append(saveLog, call.save_args)
                    /\ \/ /\ pc' = "loop"
                          /\ epochIdx' = epochIdx + 1
                          /\ err' = err
                       \/ /\ Raise("save_fn")
                          /\ UNCHANGED epochIdx
               ELSE /\ pc' = "loop"
                    /\ epochIdx' = epochIdx + 1
                    /\ UNCHANGED <<io, saveLog, err>>
       \/ /\ Raise("validate_func")
          /\ UNCHANGED <<io, accLog, best_acc, saveLog, epochIdx>>
    /\ UNCHANGED <<io, call, batchIdx, counters, grads, requires_grad, device,
                   wrapped, weights, self, fs, roundtrip>>

\* Line 409: the loop is over; self.zero_grad() and the return.
TrainReturn ==
    /\ pc = "loop"
    /\ epochIdx >= call.epoch
    /\ grads' = "zero"
    /\ pc' = "returned"
    /\ UNCHANGED <<io, call, epochIdx, batchIdx, best_acc, accLog, validated,
                   saveLog, counters, requires_grad, training, device,
                   wrapped, weights, self, fs, roundtrip, err>>

\* The caller sets the flags itself: model.activate_params(groups).
CallActivateParams(groups) ==
    /\ pc = "idle"
    /\ requires_grad' = ActivateParams(groups)
    /\ requires_grad' # requires_grad
    /\ UNCHANGED <<io, pc, trainVars, grads, training, device, wrapped, weights,
                   self, fs, roundtrip, err>>

\* A wrapper of the base network on one device, as __init__ leaves it.
Init ==
    /\ pc = "idle"
    /\ TrainAtRest
    /\ grads = "zero"
    /\ requires_grad = ActivateParams({})
    /\ training = [canon |-> FALSE, view |-> FALSE]
    /\ device = [canon |-> "cpu", view |-> "cpu"]
    /\ wrapped = FALSE
    /\ weights = InitialWeights
    /\ self = [name |-> <<"m">>, folder_path |-> <<"d", Sep>>, suffix |-> <<>>,
               has_official |-> FALSE, dataset |-> "none", num_gpus |-> 0]
    /\ fs = EmptyDisk
    /\ roundtrip = NoRoundtrip
    /\ err = NoError
    /\ arg = NoValue
    /\ result = NoValue

Next ==
    \/ \E groups \in SUBSET Params : CallActivateParams(groups)
    \/ \E c \in TrainCalls : TrainCall(c)
    \/ Baseline
    \/ EpochBegin
    \/ EpochFunc
    \/ EpochSetup
    \/ BatchData
    \/ BatchLoss
    \/ BatchStep
    \/ BatchZeroGrad
    \/ BatchMetrics
    \/ EpochEnd
    \/ Validate
    \/ TrainReturn

Spec == Init /\ [][Next]_vars

\* ----------------------------------------------------------- C1 to C4
IsMultiple(n, v) == \E k \in 1..n : n = k * v

\* The accuracies validated before the i-th one.
BestBefore(log, i) ==
    CHOOSE m \in {log[j] : j \in 1..(i - 1)} : \A j \in 1..(i - 1) : log[j] <= m

\* C1: with validate_interval = V # 0 the in-loop validation runs after
\* epoch n (1-based) exactly when n is a multiple of V or n is the last
\* epoch; with V = 0 it never runs.
C1_ValidationSchedule ==
    pc \in {"loop", "returned"} =>
        validated = {n \in 1..epochIdx :
                        /\ call.validate_interval # 0
                        /\ \/ IsMultiple(n, call.validate_interval)
                           \/ n = call.epoch}

\* A call has returned whose last epoch was validated although its number
\* is no multiple of the interval, and another epoch was not.
C1_Witness ==
    /\ pc = "returned"
    /\ call.epoch = 3
    /\ call.validate_interval = 2
    /\ validated = {2, 3}

\* C2: an in-loop validation returning cur_acc >= best_acc sets best_acc to
\* cur_acc and, when save is requested, calls save_fn once with the path
\* arguments of the call; one returning less changes neither best_acc nor
\* calls save_fn; nothing else calls save_fn, so without save it never runs.
C2_BestAndSave ==
    [][ /\ (pc = "validate" /\ Len(accLog') = Len(accLog) + 1) =>
            LET cur_acc == accLog'[Len(accLog')]
            IN IF cur_acc >= best_acc
               THEN /\ best_acc' = cur_acc
                    /\ saveLog' = IF call.save
                                  THEN Append(saveLog, call.save_args)
                                  ELSE saveLog
               ELSE /\ best_acc' = best_acc
                    /\ saveLog' = saveLog
        /\ (saveLog' # saveLog) => pc = "validate"
        /\ (saveLog' # <<>>) => call.save ]_vars

\* A validation tying with the best accuracy has saved under the call's own
\* path arguments.
C2_Witness ==
    /\ pc = "loop"
    /\ accLog = <<1, 1>>
    /\ best_acc = 1
    /\ saveLog = <<[DefaultArgs EXCEPT !.file_path = <<"d", Sep, "f">>]>>

\* C3 as stated: with save requested, the checkpoints written are exactly
\* the validations strictly above the best accuracy before them.
C3_OncePerImprovement ==
    call.save =>
        Len(saveLog) = Cardinality({i \in 2..Len(accLog) :
                                       accLog[i] > BestBefore(accLog, i)})

\* C3 amended: with save requested, the checkpoints written are exactly the
\* in-loop validations at or above the best accuracy before them (the
\* baseline being the validation before the loop); none is written for a
\* validation below it.
C3_OncePerBestOrTie ==
    call.save =>
        Len(saveLog) = Cardinality({i \in 2..Len(accLog) :
                                       accLog[i] >= BestBefore(accLog, i)})

\* A call that saved for a tie and skipped a validation below the best.
C3_Witness ==
    /\ call.save
    /\ accLog = <<1, 0, 1>>
    /\ Len(saveLog) = 1

\* C4: whenever _train hands control back, by a return or by an exception,
\* every parameter has requires_grad = False.
C4_InactiveOnExit ==
    pc \in {"returned", "raised"} => AllInactive


\* ------------------------------------------------------------ C7 and C8
\* C7: a load whose resolved path (not the 'official' sentinel) names nothing
\* on disk raises FileNotFoundError carrying that path and leaves every
\* parameter as it was, with features=True and with features=False.
C7_LoadMissingRaises ==
    [][\A a \in EffectiveArgs :
        ( /\ CallLoad(a)
          /\ ~NoFolder(self, a)
          /\ a.file_path # Official
          /\ ~OsPathExists(fs, LoadPath(self, a)) )
        => ( /\ err' = [type |-> "FileNotFoundError", path |-> LoadPath(self, a)]
             /\ weights' = weights )]_vars

\* A load of an absent path has just failed on a network whose parameters
\* are not the initial ones.
C7_Witness ==
    /\ err.type = "FileNotFoundError"
    /\ err.path # <<>>
    /\ weights # InitialWeights

\* C8: save(args), any perturbation, load(args) with the same path arguments
\* restores every parameter to the saved value.
C8_RoundTrip ==
    roundtrip.phase = "loaded" => (err = NoError /\ weights = roundtrip.snap)

\* The same, for the calls whose save had a folder to write into.
C8_RoundTripWithFolder ==
    ( /\ roundtrip.phase = "loaded"
      /\ ~NoFolder(self, roundtrip.args)
      /\ SaveFolder(self, roundtrip.args) # <<>> )
    => (err = NoError /\ weights = roundtrip.snap)



\* -------------------------------------------------- Model.__init__ and on
DatasetFolder == <<"data", Sep>>   \* data_dir + data_type + '/' + name + '/model/'

\* The dataset argument: None, the empty string, another string, or a
\* Dataset object of data_type 'image' or of another data_type.
DatasetArgs == {"none", "empty_str", "str", "image", "other"}

Truthy(dataset) == dataset \notin {"none", "empty_str"}

Names == {<<"m">>, <<"g", "c", "n">>}

ConstructArgs ==
    [dataset : DatasetArgs, name : Names, folder_path : {NoPath, <<"d", Sep>>},
     official : BOOLEAN, pretrain : BOOLEAN]

\* What the process was started with: the GPUs of env, whether the concrete
\* class overrides load_official_weights, and what the disk holds.
Environments ==
    [num_gpus : 0..2, has_official : BOOLEAN, fs : {EmptyDisk, UsedDisk}]

\* Lines 502: name[0] == 'g' and name[2] == 'n'
IsGraphName(name) == name[1] = "g" /\ Len(name) >= 3 /\ name[3] = "n"

\* Model.get_parallel: is self.model the DataParallel wrapper?
GetParallel(slf) ==
    /\ slf.num_gpus > 1
    /\ IF Truthy(slf.dataset) THEN slf.dataset = "image"
       ELSE ~IsGraphName(slf.name)

\* Before any wrapper exists.
InitLife ==
    /\ pc = "new"
    /\ TrainAtRest
    /\ grads = "zero"
    /\ requires_grad = FreshRequiresGrad
    /\ training = FreshTraining
    /\ device = FreshDevice
    /\ wrapped = FALSE
    /\ weights = InitialWeights
    /\ \E e \in Environments :
        /\ self = [name |-> <<"m">>, folder_path |-> NoPath, suffix |-> <<>>,
                   has_official |-> e.has_official, dataset |-> "none",
                   num_gpus |-> e.num_gpus]
        /\ fs = e.fs
    /\ roundtrip = NoRoundtrip
    /\ err = NoError
    /\ arg = NoValue
    /\ result = NoValue

\* Model(**i): the whole of __init__.
Construct(i) ==
    /\ pc = "new"
    /\ LET slf == [self EXCEPT
                     !.name = i.name,
                     !.dataset = i.dataset,
                     !.folder_path = IF Truthy(i.dataset) /\ i.folder_path = NoPath
                                     THEN DatasetFolder ELSE i.folder_path]
           wr == GetParallel(slf)
           rg == ActivateParams({})
           dv1 == IF wr THEN ModelTo(FreshDevice, "cuda") ELSE FreshDevice
           off == IF i.official THEN LoadOfficialWeights(slf, InitialWeights)
                  ELSE [weights |-> InitialWeights, err |-> NoError]
           pre == IF i.pretrain THEN Load(slf, DefaultArgs, fs, off.weights)
                  ELSE [weights |-> off.weights, err |-> NoError]
           dv2 == IF slf.num_gpus # 0 THEN ModelTo(dv1, "cuda") ELSE dv1
           failure == IF Truthy(i.dataset) /\ i.dataset = "str"
                      THEN [type |-> "TypeError"]
                      ELSE IF off.err # NoError THEN off.err ELSE pre.err
       IN IF failure # NoError
          THEN /\ pc' = "failed"
               /\ err' = failure
               /\ UNCHANGED <<io, requires_grad, training, device, wrapped,
                              weights, self>>
          ELSE /\ pc' = "idle"
               /\ err' = NoError
               /\ self' = slf
               /\ wrapped' = wr
               /\ requires_grad' = rg
               /\ weights' = pre.weights
               /\ device' = dv2
               /\ training' = ModelEval(FreshTraining, wr)
    /\ UNCHANGED <<io, trainVars, grads, fs, roundtrip>>

\* model.train(mode)
CallTrainMode(mode) ==
    /\ pc = "idle"
    /\ training' = ModelTrain(training, wrapped, mode)
    /\ err' = NoError
    /\ UNCHANGED <<io, pc, trainVars, grads, requires_grad, device, wrapped,
                   weights, self, fs, roundtrip>>

\* model.eval()
CallEval ==
    /\ pc = "idle"
    /\ training' = ModelEval(training, wrapped)
    /\ err' = NoError
    /\ UNCHANGED <<io, pc, trainVars, grads, requires_grad, device, wrapped,
                   weights, self, fs, roundtrip>>

\* model.cpu()
CallCpu ==
    /\ pc = "idle"
    /\ device' = ModelTo(device, "cpu")
    /\ err' = NoError
    /\ UNCHANGED <<io, pc, trainVars, grads, requires_grad, training, wrapped,
                   weights, self, fs, roundtrip>>

\* model.cuda(): torch raises where there is no GPU.
CallCuda ==
    /\ pc = "idle"
    /\ IF self.num_gpus = 0
       THEN err' = [type |-> "RuntimeError"] /\ UNCHANGED device
       ELSE err' = NoError /\ device' = ModelTo(device, "cuda")
    /\ UNCHANGED <<io, pc, trainVars, grads, requires_grad, training, wrapped,
                   weights, self, fs, roundtrip>>

\* The _train calls followed from a wrapper of any construction: one epoch
\* at most, validated or not, with or without an epoch_func.
ShortCalls ==
    {c \in TrainCalls :
        /\ c.epoch <= 1
        /\ c.validate_interval <= 1
        /\ ~c.save
        /\ ~c.lr_scheduler
        /\ c.nbatch = 1
        /\ c.params = Params}

NextLife ==
    \/ \E i \in ConstructArgs : Construct(i)
    \/ \E mode \in BOOLEAN : CallTrainMode(mode)
    \/ CallEval
    \/ CallCpu
    \/ CallCuda
    \/ CallLoad(DefaultArgs) /\ UNCHANGED roundtrip
    \/ \E c \in ShortCalls : TrainCall(c)
    \/ Baseline
    \/ EpochBegin
    \/ EpochFunc
    \/ EpochSetup
    \/ BatchData
    \/ BatchLoss
    \/ BatchStep
    \/ BatchZeroGrad
    \/ BatchMetrics
    \/ EpochEnd
    \/ Validate
    \/ TrainReturn

SpecLife == InitLife /\ [][NextLife]_vars


\* ------------------------------------------------ C5 and C6
\* C5: every construction that succeeds ends with the canonical network and
\* the view in evaluation mode and requires_grad = False on every parameter,
\* whatever official / pretrain weights were loaded on the way.
C5_ConstructedInEval ==
    [][(pc = "new" /\ pc' = "idle") =>
        /\ training' = [canon |-> FALSE, view |-> FALSE]
        /\ \A p \in Params : ~requires_grad'[p]]_vars

\* A data-parallel wrapper built on two GPUs whose weights were loaded after
\* activate_params([]).
C5_Witness ==
    /\ pc = "idle"
    /\ wrapped
    /\ weights = OfficialWeights
    /\ ~training.canon /\ ~training.view
    /\ AllInactive

\* C6: once the wrapper is built, between its calls and at every point of
\* _train and _validate, the canonical network and the view are in the same
\* mode and on the same device.
C6_ViewsInSync ==
    pc \notin {"new", "failed"} =>
        /\ training.canon = training.view
        /\ device.canon = device.view

\* A data-parallel wrapper moved to the cpu, loaded from its checkpoint and
\* in the middle of an epoch, in training mode.
C6_Witness ==
    /\ wrapped
    /\ pc = "optimizer"
    /\ training.canon /\ training.view
    /\ device.canon = "cpu" /\ device.view = "cpu"
    /\ weights # InitialWeights


\* ---------------------------------------------- _Model.define_classifier
Omitted == <<>>                 \* the argument was left at None
Given(v) == <<v>>

Depths == (0 - 1)..MaxDepth
Dims == 1..MaxDim

\* The attributes __init__ stored on the network.
Configurations ==
    [fc_depth : Depths, conv_dim : Dims, fc_dim : Dims, num_classes : Dims]

\* The arguments of a define_classifier call, each given or omitted.
Opt(S) == {Omitted} \cup {Given(v) : v \in S}
ClassifierArgs ==
    [fc_depth : Opt(Depths), conv_dim : Opt(Dims), fc_dim : Opt(Dims),
     num_classes : Opt(Dims)]

LayerName(base, suffix) == [base |-> base, suffix |-> suffix]
Linear(name, inf, outf) ==
    [name |-> name, kind |-> "Linear", in_features |-> inf, out_features |-> outf]
ReLU(name) == [name |-> name, kind |-> "ReLU"]
Dropout(name) == [name |-> name, kind |-> "Dropout"]
Identity == [kind |-> "Identity"]
Sequential(seq) == [kind |-> "Sequential", layers |-> seq]

\* Lines 84-88: the hidden layers fc2 .. fc<fc_depth - 1>, for i in range(n).
RECURSIVE HiddenLayers(_, _)
HiddenLayers(net, n) ==
    IF n <= 0 THEN <<>>
    ELSE HiddenLayers(net, n - 1) \o
         << Linear(LayerName("fc", Given(n + 1)), net.fc_dim, net.fc_dim),
            ReLU(LayerName("relu", Given(n + 1))),
            Dropout(LayerName("dropout", Given(n + 1))) >>

\* _Model.define_classifier(**a) on the network net. The arguments
\* fill the locals fc_depth, conv_dim, fc_dim and num_classes (lines 66-75);
\* every later line reads the attributes of the network.
DefineClassifier(net, a) ==
    LET fc_depth == IF a.fc_depth = Omitted THEN net.fc_depth ELSE a.fc_depth[1]
        conv_dim == IF a.conv_dim = Omitted THEN net.conv_dim ELSE a.conv_dim[1]
        fc_dim == IF a.fc_dim = Omitted THEN net.fc_dim ELSE a.fc_dim[1]
        num_classes == IF a.num_classes = Omitted THEN net.num_classes
                       ELSE a.num_classes[1]
    IN IF net.fc_depth <= 0 THEN Identity
       ELSE IF net.fc_depth = 1
       THEN Sequential(<< Linear(LayerName("fc", Omitted),
                                 net.conv_dim, net.num_classes) >>)
       ELSE Sequential(
                << Linear(LayerName("fc", Given(1)), net.conv_dim, net.fc_dim),
                   ReLU(LayerName("relu", Given(1))),
                   Dropout(LayerName("dropout", Given(1))) >>
                \o HiddenLayers(net, net.fc_depth - 2)
                \o << Linear(LayerName("fc", Given(net.fc_depth)),
                             net.fc_dim, net.num_classes) >>)

\* The variables of the wrapper, while a function is studied on its own.
WrapperAtRest ==
    /\ TrainAtRest
    /\ grads = "zero"
    /\ requires_grad = FreshRequiresGrad
    /\ training = FreshTraining
    /\ device = FreshDevice
    /\ wrapped = FALSE
    /\ weights = InitialWeights
    /\ self = [name |-> <<"m">>, folder_path |-> NoPath, suffix |-> <<>>,
               has_official |-> FALSE, dataset |-> "none", num_gpus |-> 0]
    /\ fs = EmptyDisk
    /\ roundtrip = NoRoundtrip
    /\ err = NoError

wrapperVars ==
    <<trainVars, grads, requires_grad, training, device, wrapped, weights,
      self, fs, roundtrip, err>>

InitClassifier ==
    /\ pc = "call"
    /\ WrapperAtRest
    /\ arg \in [net : Configurations, given : ClassifierArgs]
    /\ result = NoValue

DefineClassifierCall ==
    /\ pc = "call"
    /\ result' = DefineClassifier(arg.net, arg.given)
    /\ pc' = "done"
    /\ UNCHANGED <<arg, wrapperVars>>

SpecClassifier == InitClassifier /\ [][DefineClassifierCall]_vars

\* The value a define_classifier call works with: its argument, or the
\* network's attribute when the argument is omitted.
Effective(a, net, field) ==
    IF a[field] = Omitted THEN net[field] ELSE a[field][1]

\* The classifier the claim describes.
ExpectedClassifier(fc_depth, conv_dim, fc_dim, num_classes) ==
    IF fc_depth <= 0 THEN Identity
    ELSE IF fc_depth = 1
    THEN Sequential(<<Linear(LayerName("fc", Omitted), conv_dim, num_classes)>>)
    ELSE Sequential(
        [j \in 1..(3 * fc_depth - 2) |->
            LET k == (j + 2) \div 3
                r == (j - 1) % 3
            IN IF r = 0
               THEN Linear(LayerName("fc", Given(k)),
                           IF k = 1 THEN conv_dim ELSE fc_dim,
                           IF k = fc_depth THEN num_classes ELSE fc_dim)
               ELSE IF r = 1 THEN ReLU(LayerName("relu", Given(k)))
               ELSE Dropout(LayerName("dropout", Given(k)))])

\* C9: for every fc_depth, conv_dim, fc_dim and num_classes,
\* define_classifier builds the identity for fc_depth <= 0, the single layer
\* fc : conv_dim -> num_classes for fc_depth = 1, and otherwise fc1 ..
\* fc<fc_depth> chained conv_dim -> fc_dim -> ... -> num_classes with a ReLU
\* and a dropout after every linear layer but the last.
C9_DefineClassifier ==
    pc = "done" =>
        result = ExpectedClassifier(Effective(arg.given, arg.net, "fc_depth"),
                                    Effective(arg.given, arg.net, "conv_dim"),
                                    Effective(arg.given, arg.net, "fc_dim"),
                                    Effective(arg.given, arg.net, "num_classes"))

\* The same for the call __init__ makes, which passes no argument.
C9_FromAttributes ==
    (pc = "done" /\ \A f \in DOMAIN arg.given : arg.given[f] = Omitted) =>
        result = ExpectedClassifier(arg.net.fc_depth, arg.net.conv_dim,
                                    arg.net.fc_dim, arg.net.num_classes)

\* --------------------------------------------------------- Model.accuracy
\* Classes are 0 .. num_classes - 1. A row of logits matters to topk only
\* through the order of its scores, so a row is kept as dense ranks: the
\* scores used are exactly 0 .. (largest score), ties included.
Classes(num_classes) == 0..(num_classes - 1)

LogitRows(num_classes) ==
    {r \in [Classes(num_classes) -> Classes(num_classes)] :
        \A v \in Classes(num_classes) :
            (\E c \in Classes(num_classes) : r[c] > v) =>
                \E c \in Classes(num_classes) : r[c] = v}

\* topk is a tuple of one requested k or of two increasing ones, like the
\* default (1, 5); each entry of the answer is computed from its own k.
TopkTuples(num_classes) ==
    {<<k>> : k \in 1..(num_classes + 1)} \cup
    {jk \in (1..num_classes) \X (2..(num_classes + 1)) : jk[1] < jk[2]}

\* The calls on a batch of batch_size examples over num_classes classes.
AccuracyCalls(num_classes, batch_size) ==
    [num_classes : {num_classes},
     output : [1..batch_size -> LogitRows(num_classes)],
     label : [1..batch_size -> Classes(num_classes)],
     topk : TopkTuples(num_classes)]

MaxOf(seq) == CHOOSE k \in {seq[n] : n \in DOMAIN seq} :
                  \A n \in DOMAIN seq : seq[n] <= k
Min(a, b) == IF a <= b THEN a ELSE b

\* Line 462.
MaxK(a) == Min(MaxOf(a.topk), a.num_classes)

\* row.topk(maxk, largest=True, sorted=True): the indices of maxk largest
\* scores, by descending score. Which of several equal scores comes first,
\* or is kept, is not specified by torch: every such answer is possible.
RECURSIVE TopKOf(_, _, _)
TopKOf(row, among, maxk) ==
    IF maxk = 0 THEN {<<>>}
    ELSE UNION {{<<c>> \o rest : rest \in TopKOf(row, among \ {c}, maxk - 1)} :
                c \in {c \in among : \A d \in among : row[c] >= row[d]}}
TopK(row, maxk) == TopKOf(row, DOMAIN row, maxk)

\* The answers of output.topk(maxk, 1, True, True), one row per example.
TopKRows(output, maxk) ==
    {pred \in [DOMAIN output -> UNION {TopK(output[i], maxk) : i \in DOMAIN output}] :
        \A i \in DOMAIN output : pred[i] \in TopK(output[i], maxk)}

\* Lines 466-467: pred.t().eq(label.view(1, -1).expand_as(pred)), a matrix
\* of maxk rows and batch_size columns.
Correct(pred, label) ==
    [j \in DOMAIN pred[1] |-> [i \in DOMAIN label |-> pred[i][j] = label[i]]]

CorrectKRowK(correct, k) ==
    Cardinality({i \in DOMAIN correct[1] : correct[k][i]})

\* Lines 474-475: correct[:k].view(-1).float().sum(0).
CorrectK(correct, k) ==
    Cardinality({ji \in (1..k) \X DOMAIN correct[1] : correct[ji[1]][ji[2]]})

\* Model.accuracy with the answer pred of topk. Accuracies are kept exact,
\* in units of (1 / batch_size) percent: 100.0 is 100 * batch_size and
\* correct_k * (100.0 / batch_size) is 100 * correct_k.
Accuracy(a, pred) ==
    LET batch_size == Len(a.label)
        correct == Correct(pred, a.label)
    IN [n \in DOMAIN a.topk |->
           IF a.topk[n] > a.num_classes
           THEN 100 * batch_size
           ELSE 100 * CorrectK(correct, a.topk[n])]

InitAccuracy ==
    /\ pc = "call"
    /\ WrapperAtRest
    /\ \E n \in 1..MaxLogits, b \in 1..MaxLogits :
          /\ n * b <= MaxLogits
          /\ arg \in AccuracyCalls(n, b)
    /\ result = NoValue

AccuracyCall ==
    /\ pc = "call"
    /\ \E pred \in TopKRows(arg.output, MaxK(arg)) :
          result' = [pred |-> pred, res |-> Accuracy(arg, pred)]
    /\ pc' = "done"
    /\ UNCHANGED <<arg, wrapperVars>>

SpecAccuracy == InitAccuracy /\ [][AccuracyCall]_vars

\* The classes of example i that topk placed first to k-th.
Chosen(i, k) == {result.pred[i][j] : j \in 1..k}

\* S is a set of k highest-scored classes of the row.
IsHighest(S, row, k) ==
    /\ S \subseteq DOMAIN row
    /\ Cardinality(S) = k
    /\ \A c \in S : \A d \in (DOMAIN row) \ S : row[c] >= row[d]

\* Examples whose label is in every, resp. in some, set of k highest-scored
\* classes.
SurelyIn(a, k) ==
    {i \in DOMAIN a.label :
        Cardinality({d \in Classes(a.num_classes) \ {a.label[i]} :
                        a.output[i][d] >= a.output[i][a.label[i]]}) < k}
PossiblyIn(a, k) ==
    {i \in DOMAIN a.label :
        Cardinality({d \in Classes(a.num_classes) :
                        a.output[i][d] > a.output[i][a.label[i]]}) < k}

\* C10: for any batch of logits with valid labels and any requested k,
\* accuracy returns for k <= num_classes the percentage of examples whose
\* label is among the k highest-scored classes and 100 for k > num_classes;
\* it is non-decreasing in k, and the value at k = num_classes is at least
\* the value at every smaller k.
C10_Accuracy ==
    pc = "done" =>
        LET a == arg
            res == result.res
            batch_size == Len(a.label)
        IN /\ \A n \in DOMAIN a.topk :
                  LET k == a.topk[n]
                  IN IF k > a.num_classes
                     THEN res[n] = 100 * batch_size
                     ELSE /\ \A i \in DOMAIN a.label :
                                 IsHighest(Chosen(i, k), a.output[i], k)
                          /\ res[n] = 100 * Cardinality(
                                 {i \in DOMAIN a.label : a.label[i] \in Chosen(i, k)})
                          /\ 100 * Cardinality(SurelyIn(a, k)) <= res[n]
                          /\ res[n] <= 100 * Cardinality(PossiblyIn(a, k))
           /\ \A m, n \in DOMAIN a.topk :
                  a.topk[m] <= a.topk[n] => res[m] <= res[n]
           /\ \A m, n \in DOMAIN a.topk :
                  (a.topk[n] = a.num_classes /\ a.topk[m] < a.num_classes) =>
                      /\ res[n] = 100 * batch_size
                      /\ res[m] <= res[n]

\* Two examples over two classes, one of them ranked first and one second:
\* 50% at k = 1 and 100% at k = 2 = num_classes.
C10_Witness ==
    /\ pc = "done"
    /\ arg.num_classes = 2
    /\ Len(arg.label) = 2
    /\ arg.topk = <<1, 2>>
    /\ arg.output[1] # arg.output[2]
    /\ result.res = <<100, 200>>

\* --------------------------------------- Model.generate_target / get_class
\* The calls: the wrapper's randomized_smooth attribute, whether the network
\* is in training mode (its nn.Dropout layers then drop at random), the shape
\* of the batch, and the same argument; idx is 1.
TargetCalls ==
    {c \in [randomized_smooth : BOOLEAN, training : BOOLEAN,
            num_classes : 2..MaxTargetLogits,
            batch_size : 1..MaxTargetLogits, idx : {1}, same : BOOLEAN] :
        c.num_classes * c.batch_size <= MaxTargetLogits}

\* Do two get_logits calls on the same input give the same logits?
Deterministic(c) == ~c.randomized_smooth /\ ~c.training

\* Model.get_logits on the batch of the call. In evaluation mode the
\* network is a function of its input: what it answered before (known), it
\* answers again. With randomized_smooth the answer is the mean over inputs
\* with fresh gaussian noise, drawn anew in every call: any logits.
GetLogits(c, known) ==
    IF ~Deterministic(c) \/ known = Omitted
    THEN [1..c.batch_size -> LogitRows(c.num_classes)]
    ELSE {known[1]}

ArgsortAscending(row) ==
    {[j \in DOMAIN p |-> p[Len(p) + 1 - j]] : p \in TopK(row, Cardinality(DOMAIN row))}

\* row.argsort(descending=True): a ranking of all classes by descending
\* score, equal scores in any order.
ArgsortDescending(row) == TopK(row, Cardinality(DOMAIN row))

\* row.argmax(): the first of the largest scores.
Argmax(row) ==
    CHOOSE c \in DOMAIN row :
        /\ \A d \in DOMAIN row : row[c] >= row[d]
        /\ \A d \in DOMAIN row : row[d] = row[c] => c <= d

\* target.mode(dim=0)[0]: the most frequent value, the smallest of several.
ModeOf(target) ==
    LET Count(v) == Cardinality({i \in DOMAIN target : target[i] = v})
        values == {target[i] : i \in DOMAIN target}
    IN CHOOSE v \in values :
           /\ \A w \in values : Count(v) >= Count(w)
           /\ \A w \in values : Count(w) = Count(v) => v <= w

InitTarget ==
    /\ pc = "call"
    /\ WrapperAtRest
    /\ arg \in TargetCalls
    /\ result = NoValue

\* model.generate_target(_input, idx, same)
GenerateTargetCall ==
    /\ pc = "call"
    /\ \E _output \in GetLogits(arg, Omitted) :
       \E order \in [1..arg.batch_size ->
                        UNION {ArgsortDescending(_output[i]) : i \in 1..arg.batch_size}] :
          /\ \A i \in 1..arg.batch_size : order[i] \in ArgsortDescending(_output[i])
          /\ LET target == [i \in 1..arg.batch_size |-> order[i][arg.idx + 1]]
             IN result' = [logits |-> _output,
                           target |-> IF arg.same
                                      THEN [i \in 1..arg.batch_size |-> ModeOf(target)]
                                      ELSE target]
    /\ pc' = "targeted"
    /\ UNCHANGED <<arg, wrapperVars>>

\* model.get_class(_input) on the same input
GetClassCall ==
    /\ pc = "targeted"
    /\ \E _output \in GetLogits(arg, Given(result.logits)) :
          result' = [logits |-> result.logits,
                     target |-> result.target,
                     class_logits |-> _output,
                     class |-> [i \in 1..arg.batch_size |-> Argmax(_output[i])]]
    /\ pc' = "done"
    /\ UNCHANGED <<arg, wrapperVars>>

SpecTarget == InitTarget /\ [][GenerateTargetCall \/ GetClassCall]_vars

\* The highest and the second-highest logit of the row differ.
TopTwoDiffer(row) ==
    Cardinality({c \in DOMAIN row : \A d \in DOMAIN row : row[c] >= row[d]}) = 1

\* c is ranked second in the row: exactly one class scores higher.
RankedSecond(row, c) ==
    Cardinality({d \in DOMAIN row : row[d] > row[c]}) = 1

\* C11: generate_target(input, idx=1, same=False) returns, for every
\* example whose highest and second-highest logit differ, the class ranked
\* second by logit, and that class is never the one get_class returns for
\* the example.
C11_RunnerUp ==
    (pc = "done" /\ ~arg.same) =>
        \A i \in 1..arg.batch_size :
            (TopTwoDiffer(result.logits[i]) /\ TopTwoDiffer(result.class_logits[i])) =>
                /\ RankedSecond(result.logits[i], result.target[i])
                /\ result.target[i] # result.class[i]

\* C11 as the code has it: the class returned is ranked second in the logits
\* generate_target computed and is not their arg-max; it differs from the
\* class get_class returns whenever get_logits is deterministic.
C11_RunnerUpOfItsLogits ==
    (pc = "done" /\ ~arg.same) =>
        \A i \in 1..arg.batch_size :
            TopTwoDiffer(result.logits[i]) =>
                /\ RankedSecond(result.logits[i], result.target[i])
                /\ result.target[i] # Argmax(result.logits[i])
                /\ Deterministic(arg) =>
                       /\ result.class_logits = result.logits
                       /\ result.target[i] # result.class[i]

\* Three classes with three different logits, deterministic logits: the
\* target is the class in the middle, get_class returns the one on top.
C11_Witness ==
    /\ pc = "done"
    /\ ~arg.same /\ Deterministic(arg)
    /\ arg.num_classes = 3
    /\ result.logits[1] = (0 :> 1 @@ 1 :> 2 @@ 2 :> 0)
    /\ result.target = <<0>>
    /\ result.class = <<1>>

\* ------------------------------------------- construction with a string
\* C12: constructing a Model with a dataset argument that is a string, the
\* empty string included, fails with TypeError and constructs no wrapper.
C12_StringDatasetRaises ==
    [][\A i \in ConstructArgs :
          (Construct(i) /\ i.dataset \in {"str", "empty_str"}) =>
              /\ pc' = "failed"
              /\ err'.type = "TypeError"
              /\ UNCHANGED <<self, wrapped, requires_grad, training, device, weights>>]_vars

\* The same for the strings that are not empty.
C12_NonEmptyStringRaises ==
    [][\A i \in ConstructArgs :
          (Construct(i) /\ i.dataset = "str") =>
              /\ pc' = "failed"
              /\ err'.type = "TypeError"
              /\ UNCHANGED <<self, wrapped, requires_grad, training, device, weights>>]_vars

\* ------------------------------------------------- the steps of a _train
\* The _train calls whose steps are counted: with or without amp, on the
\* full parameters, nothing saved.
StepCalls ==
    [epoch : Epochs, validate_interval : Intervals, save : {FALSE},
     epoch_func : BOOLEAN, lr_scheduler : BOOLEAN, nbatch : Batches,
     params : {Params}, save_args : {DefaultArgs}, amp : BOOLEAN]

\* A wrapper as __init__ leaves it, on the cpu or on one GPU.
InitSteps ==
    /\ pc = "idle"
    /\ TrainAtRest
    /\ grads = "zero"
    /\ requires_grad = ActivateParams({})
    /\ training = [canon |-> FALSE, view |-> FALSE]
    /\ wrapped = FALSE
    /\ weights = InitialWeights
    /\ \E g \in 0..1 :
        /\ self = [name |-> <<"m">>, folder_path |-> <<"d", Sep>>, suffix |-> <<>>,
                   has_official |-> FALSE, dataset |-> "none", num_gpus |-> g]
        /\ device = IF g = 0 THEN FreshDevice ELSE ModelTo(FreshDevice, "cuda")
    /\ fs = EmptyDisk
    /\ roundtrip = NoRoundtrip
    /\ err = NoError
    /\ arg = NoValue
    /\ result = NoValue

NextSteps ==
    \/ \E c \in StepCalls : TrainCall(c)
    \/ Baseline
    \/ EpochBegin
    \/ EpochFunc
    \/ EpochSetup
    \/ BatchData
    \/ BatchLoss
    \/ BatchStep
    \/ BatchZeroGrad
    \/ BatchMetrics
    \/ EpochEnd
    \/ Validate
    \/ TrainReturn

SpecSteps == InitSteps /\ [][NextSteps]_vars

\* What C13 says of the order of the steps: a step of the optimizer (taken
\* or skipped by the scaler) is followed at once by the zeroing of the
\* gradients and that by the metric update; the scheduler steps once per
\* epoch, after the epoch's last batch and before the epoch's validation.
StepOrder ==
    /\ (counters'.opt # counters.opt \/ counters'.skip # counters.skip) =>
           /\ pc = "optimizer" /\ pc' = "zero_grad"
           /\ counters'.opt + counters'.skip = counters.opt + counters.skip + 1
    /\ pc = "zero_grad" => (grads' = "zero" /\ pc' = "metrics")
    /\ pc' = "metrics" => pc = "zero_grad"
    /\ counters'.sched # counters.sched =>
           /\ pc = "epoch_end" /\ pc' \in {"validate", "loop"}
           /\ batchIdx = call.nbatch
           /\ counters.opt + counters.skip = (epochIdx + 1) * call.nbatch
           /\ counters.sched = epochIdx
           /\ counters'.sched = epochIdx + 1
    /\ (pc' = "validate" /\ call.lr_scheduler) => counters'.sched = epochIdx' + 1
    /\ pc' = "returned" =>
           /\ epochIdx' = call.epoch
           /\ counters'.sched = IF call.lr_scheduler THEN call.epoch ELSE 0

C14_HooksSeeInactive ==
    /\ pc \in {"baseline", "epoch_func", "validate"} => AllInactive
    /\ (pc = "get_data" /\ batchIdx = 0) =>
           requires_grad = ActivateParams(call.params)

\* The same without the baseline validation.
C14_LoopHooksSeeInactive ==
    /\ pc \in {"epoch_func", "validate"} => AllInactive
    /\ (pc = "get_data" /\ batchIdx = 0) =>
           requires_grad = ActivateParams(call.params)

\* --------------------------------------------------- the best accuracy
\* C15: in _train best_acc is established by exactly one validation that
\* runs before any optimizer step, also when epoch = 0 or validate_interval
\* = 0; it never decreases afterwards, and after every in-loop validation it
\* is the maximum of the initial accuracy and all accuracies validated so
\* far.
C15_BestIsMaximum ==
    [][/\ accLog' # accLog =>
              /\ pc \in {"baseline", "validate"}
              /\ Len(accLog') = Len(accLog) + 1
              /\ best_acc' = MaxOf(accLog')
       /\ (pc = "baseline" /\ pc' # "raised") =>
              /\ accLog' = <<best_acc'>>
              /\ counters'.opt = 0 /\ counters'.skip = 0
       /\ (counters'.opt # counters.opt \/ counters'.skip # counters.skip) =>
              Len(accLog) >= 1
       /\ pc \notin {"idle", "baseline"} => best_acc' >= best_acc
       /\ (pc' = "returned" /\ (call.epoch = 0 \/ call.validate_interval = 0)) =>
              /\ Len(accLog') = 1
              /\ best_acc' = accLog'[1]]_vars

\* A baseline of 0, then validations of 1 and of 0 after optimizer steps:
\* the best accuracy is 1.
C15_Witness ==
    /\ pc = "returned"
    /\ accLog = <<0, 1, 0>>
    /\ best_acc = 1
    /\ counters.opt = 2

====
